---- MODULE Spec2Model ----
(***************************************************************************)
(* Simplex-Lattice mixture design: the calculation engine calculate_design *)
(* of v69.6 (variant "A", src/simplex_lattice_design/main.py) and of v73.5 *)
(* (variant "B", src/simplex_lattice_design_v73_5/...), and the widget     *)
(* handlers that collect its configuration.                                *)
(*                                                                         *)
(* Python floats are modelled by exact rationals <<n, d>> (d > 0, lowest   *)
(* terms); the tolerances of the classifier (1%, 0.01 percentage point)    *)
(* are many orders of magnitude above the rounding error of a double.      *)
(* A DataFrame row is a function from column labels to values; a label is  *)
(* the pair of the parts of the f-string that builds it, so that           *)
(* f'{name} (Product mass) [g]' is <<name, " (Product mass) [g]">>.        *)
(* The parameters degree_m, total_formula_mass, replicate and randomize    *)
(* get their values where calculate_design first reads them.               *)
(***************************************************************************)
EXTENDS Integers, Sequences, FiniteSets, TLC

VARIABLES
    variant,                 \* "A" (v69.6) or "B" (v73.5): which calculate_design runs
    component_rows,          \* the widget rows (closure list of the interface)
    component_data,          \* parameter: ordered mapping name -> values, as a sequence
    pc,                      \* position of the call
    error,                   \* the exception that ended the call, "" if none
    solvent_component_name,  \* local of calculate_design
    degree_m,                \* parameter, bound where the code first reads it
    total_formula_mass,      \* parameter, bound where the code first reads it
    it,                      \* the itertools.product iterator of the lattice loop
    lattice,                 \* history: the tuples that passed `sum(p_tuple) == degree_m`
                             \* with the z computed from each, in order
    valid_rows,              \* local list
    removed_rows,            \* local list
    replicate,               \* parameter, bound where the code first reads it
    randomize,               \* parameter, bound where the code first reads it
    final_cols,              \* returned column schema
    df_valid,                \* returned table of valid formulas
    df_removed               \* returned table of removed formulas

vars == <<variant, component_rows, component_data, pc, error, solvent_component_name,
          degree_m, total_formula_mass, it, lattice, valid_rows, removed_rows,
          replicate, randomize, final_cols, df_valid, df_removed>>

(***************************************************************************)
(* Bounds of the model.                                                    *)
(***************************************************************************)
MaxDegree == 2
MaxReplicate == 2
MaxShuffleRows == 4

\* A str is the sequence of its pieces (" " is a whitespace character); None is a
\* value that no str equals.
None == <<"None", "Type">>
Str(piece) == <<piece>>
EmptyStr == <<>>

(***************************************************************************)
(* Exact rational arithmetic standing for float arithmetic.                *)
(***************************************************************************)
Abs(x) == IF x < 0 THEN -x ELSE x

RECURSIVE GCD(_, _)
GCD(a, b) == IF b = 0 THEN a ELSE GCD(b, a % b)

Rat(n, d) ==
    LET g == GCD(Abs(n), Abs(d))
        s == IF d < 0 THEN -1 ELSE 1
    IN  <<(s * n) \div g, (s * d) \div g>>

Zero == <<0, 1>>
RInt(i) == <<i, 1>>
RAdd(a, b) == Rat(a[1] * b[2] + b[1] * a[2], a[2] * b[2])
RSub(a, b) == Rat(a[1] * b[2] - b[1] * a[2], a[2] * b[2])
RMul(a, b) == Rat(a[1] * b[1], a[2] * b[2])
\* a / b for b # 0 (every division of the code is guarded or validated)
RDiv(a, b) == Rat(a[1] * b[2], a[2] * b[1])
RLt(a, b) == a[1] * b[2] < b[1] * a[2]
RGt(a, b) == RLt(b, a)
RLe(a, b) == ~RLt(b, a)

RECURSIVE RSum(_)
RSum(s) == IF s = <<>> THEN Zero ELSE RAdd(Head(s), RSum(Tail(s)))

RECURSIVE ISum(_)
ISum(s) == IF s = <<>> THEN 0 ELSE Head(s) + ISum(Tail(s))

\* [f(s[1]), ..., f(s[n])]
Map(f(_), s) == [i \in 1..Len(s) |-> f(s[i])]

RECURSIVE SelectNames(_, _)
SelectNames(s, drop) ==
    IF s = <<>> THEN <<>>
    ELSE IF Head(s) = drop THEN SelectNames(Tail(s), drop)
         ELSE <<Head(s)>> \o SelectNames(Tail(s), drop)

(***************************************************************************)
(* The configurations the engine is called with.  A configuration is the   *)
(* dict component_data: distinct non-empty names in insertion order.       *)
(***************************************************************************)
Names == <<Str("A"), Str("B"), Str("C")>>

\* (purity %, max active %, density) of one ingredient
Profiles ==
    { <<100, 100, 1>>,      \* pure
      <<90, 50, 2>>,        \* impure, limited
      <<0, 0, 1>>,          \* purity 0
      <<50, 100, 1>>,       \* max active above purity
      <<110, 110, 1>>,      \* percentages above 100
      <<-10, -10, 1>>,      \* percentages below 0
      <<100, 100, 0>> }     \* density 0

Ingredient(name, p, solv) ==
    [name |-> name, product_active_wt_perc |-> p[1], maximum_active_wt_perc |-> p[2],
     density |-> p[3], is_solvent |-> solv]

\* the dict of n ingredients with the profiles ps and the solvent flags sv
Configuration(n, ps, sv) == [i \in 1..n |-> Ingredient(Names[i], ps[i], sv[i])]

TotalMasses == {-100, 0, 100}
Degrees == (-1)..MaxDegree
Replicates == 1..MaxReplicate

(***************************************************************************)
(* calculate_design: validation                                            *)
(***************************************************************************)
component_names(cd) == [i \in 1..Len(cd) |-> cd[i].name]

solvent_count(cd) == Cardinality({i \in 1..Len(cd) : cd[i].is_solvent})

\* the last ingredient flagged is_solvent, None if there is none
SolventName(cd) ==
    LET S == {i \in 1..Len(cd) : cd[i].is_solvent}
    IN  IF S = {} THEN None ELSE cd[CHOOSE i \in S : \A j \in S : j <= i].name

\* the check of one ingredient, in the order of the code; "" if it passes
IngredientErrorA(c) ==
    IF c.maximum_active_wt_perc > c.product_active_wt_perc THEN "Max Active > Purity"
    ELSE IF c.density <= 0 THEN "density must be > 0"
    ELSE ""

IngredientErrorB(c) ==
    IF c.maximum_active_wt_perc > c.product_active_wt_perc THEN "Max Active > Purity"
    ELSE IF \/ c.product_active_wt_perc < 0 \/ c.product_active_wt_perc > 100
            \/ c.maximum_active_wt_perc < 0 \/ c.maximum_active_wt_perc > 100
         THEN "Percentages must be 0-100"
    ELSE IF c.density <= 0 THEN "density must be > 0"
    ELSE ""

\* the purity test with its operands exchanged
IngredientErrorSwapped(v, c) ==
    IF c.product_active_wt_perc > c.maximum_active_wt_perc THEN "Max Active > Purity"
    ELSE IF c.density <= 0 THEN "density must be > 0"
    ELSE ""

IngredientError(v, c) == IF v = "A" THEN IngredientErrorA(c) ELSE IngredientErrorB(c)

\* the validation with the solvent test off by one (> 2)
ValidationErrorOffByOne(v, cd) ==
    IF solvent_count(cd) > 2 THEN "Multiple ingredients marked as 'Is Solvent'"
    ELSE LET bad == {i \in 1..Len(cd) : IngredientError(v, cd[i]) # ""}
         IN  IF bad = {} THEN ""
             ELSE IngredientError(v, cd[CHOOSE i \in bad : \A j \in bad : i <= j])

\* the ValueError the validation raises, "" if none
ValidationError(v, cd) ==
    IF solvent_count(cd) > 1 THEN "Multiple ingredients marked as 'Is Solvent'"
    ELSE LET bad == {i \in 1..Len(cd) : IngredientError(v, cd[i]) # ""}
         IN  IF bad = {} THEN ""
             ELSE IngredientError(v, cd[CHOOSE i \in bad : \A j \in bad : i <= j])

product_purity_map(cd, name) ==
    LET c == cd[CHOOSE i \in 1..Len(cd) : cd[i].name = name]
    IN  Rat(c.product_active_wt_perc, 100)

\* the maximum active as entered, not divided by 100
max_active_percent(cd, name) ==
    LET c == cd[CHOOSE i \in 1..Len(cd) : cd[i].name = name]
    IN  RInt(c.maximum_active_wt_perc)

max_active_map(cd, name) ==
    LET c == cd[CHOOSE i \in 1..Len(cd) : cd[i].name = name]
    IN  Rat(c.maximum_active_wt_perc, 100)

density_map(cd, name) ==
    LET c == cd[CHOOSE i \in 1..Len(cd) : cd[i].name = name]
    IN  RInt(c.density)

(***************************************************************************)
(* calculate_design: the lattice loop's iterator                           *)
(***************************************************************************)
\* range(degree_m): the upper end left out
RangeExclusive(m) == 0..(m - 1)

\* range(degree_m + 1)
RangeValues(m) == 0..m

\* itertools.product(range(m + 1), repeat = n): its first tuple, if any
ProductFirst(m, n) ==
    IF n > 0 /\ RangeValues(m) = {} THEN [done |-> TRUE, next |-> <<>>]
    ELSE [done |-> FALSE, next |-> [i \in 1..n |-> 0]]

\* the tuple after t with the first index fastest
ProductSuccFirstFastest(m, t) ==
    LET n == Len(t)
        movable == {i \in 1..n : t[i] + 1 \in RangeValues(m)}
    IN  IF movable = {} THEN [done |-> TRUE, next |-> <<>>]
        ELSE LET i == CHOOSE k \in movable : \A j \in movable : k <= j
             IN  [done |-> FALSE,
                  next |-> [j \in 1..n |-> IF j > i THEN t[j]
                                           ELSE IF j = i THEN t[j] + 1 ELSE 0]]

\* the tuple after t in the order of itertools.product (last index fastest)
ProductSucc(m, t) ==
    LET n == Len(t)
        movable == {i \in 1..n : t[i] + 1 \in RangeValues(m)}
    IN  IF movable = {} THEN [done |-> TRUE, next |-> <<>>]
        ELSE LET i == CHOOSE k \in movable : \A j \in movable : j <= k
             IN  [done |-> FALSE,
                  next |-> [j \in 1..n |-> IF j < i THEN t[j]
                                           ELSE IF j = i THEN t[j] + 1 ELSE 0]]

\* advance the iterator to the first tuple that passes `sum(p_tuple) == degree_m`
RECURSIVE NextLatticePoint(_, _)
NextLatticePoint(m, i) ==
    IF i.done THEN i
    ELSE IF ISum(i.next) = m THEN i
    ELSE NextLatticePoint(m, ProductSucc(m, i.next))

(***************************************************************************)
(* calculate_design: one formula (the body of the lattice loop)            *)
(***************************************************************************)
\* Python truthiness of a name or None
Truthy(s) == s # None /\ s # EmptyStr

\* component_names.index(name)
Index(names, name) ==
    CHOOSE i \in 1..Len(names) : names[i] = name /\ \A j \in 1..(i - 1) : names[j] # name

\* a label of a column: the parts of the f-string (or the literal) that names it
Col(name, suffix) == <<name, suffix>>
ColFormulaNumber == Col(EmptyStr, "Formula Number")
ColReason == Col(EmptyStr, "Reason Removed")
ColSumMass == Col(Str("Sum"), " (Product mass) [g]")
ColSumProdWt == Col(Str("Sum"), " (Product weight) [%]")
ColSumActiveWt == Col(Str("Sum"), " (Active weight) [%]")
ColExtraSolvent == Col(EmptyStr, "Extra Solvent from Ingredients [g]")
ColTotalSolvent == Col(EmptyStr, "Total Solvent [g]")

\* d after the assignments u: a later assignment to a key replaces the earlier
Assign(d, u) == u @@ d

\* z = [x / degree_m for x in p_tuple], degree_m # 0
ZVector(t, m) == [i \in 1..Len(t) |-> Rat(t[i], m)]

calc_names(cd, solv) == SelectNames(component_names(cd), solv)

\* the product mass taken from the fraction alone, the maximum active left out
prod_mass_without_max(cd, T, z, name) ==
    LET idx == Index(component_names(cd), name)
        target_active == RMul(z[idx], RInt(T))
        purity == product_purity_map(cd, name)
    IN  IF RGt(purity, Zero) THEN RDiv(target_active, purity) ELSE Zero

\* prod_mass of a non-solvent ingredient
prod_mass(cd, T, z, name) ==
    LET idx == Index(component_names(cd), name)
        target_active == RMul(RMul(z[idx], max_active_map(cd, name)), RInt(T))
        purity == product_purity_map(cd, name)
    IN  IF RGt(purity, Zero) THEN RDiv(target_active, purity) ELSE Zero

\* the subtraction with its operands exchanged
req_solvent_negated(T, sum_partial_mass) == RSub(sum_partial_mass, RInt(T))

\* req_solvent = total_formula_mass - sum_partial_mass
req_solvent(T, sum_partial_mass) == RSub(RInt(T), sum_partial_mass)

\* an explicit copy of the function f (every value computed once)
Eager(f) == f @@ <<>>

\* temp_product_masses once the non-solvent masses `partial` (in the order of
\* calc_names) are known: the solvent, if any, fills the remainder
WithSolvent(T, solv, cn, partial) ==
    LET non_solvent == [name \in {cn[i] : i \in 1..Len(cn)} |-> partial[Index(cn, name)]]
    IN  IF Truthy(solv)
        THEN Assign(non_solvent, solv :> req_solvent(T, RSum(partial)))
        ELSE Eager(non_solvent)

\* the dict temp_product_masses at the end of the mass computation
temp_product_masses(cd, T, z, solv) ==
    LET cn == calc_names(cd, solv)
    IN  WithSolvent(T, solv, cn, Eager([i \in 1..Len(cn) |-> prod_mass(cd, T, z, cn[i])]))

\* temp_product_masses.get(name, 0.0)
Get(tpm, name) == IF name \in DOMAIN tpm THEN tpm[name] ELSE Zero

\* sum(d.values())
RECURSIVE SumValues(_)
SumValues(d) ==
    IF DOMAIN d = {} THEN Zero
    ELSE LET k == CHOOSE x \in DOMAIN d : TRUE
         IN  RAdd(d[k], SumValues([x \in DOMAIN d \ {k} |-> d[x]]))

\* the impurities of every ingredient, the solvent's own included
extra_solvent_mass_with_own(cd, solv, tpm) ==
    LET names == component_names(cd)
    IN  RSum([i \in 1..Len(names) |->
                RMul(tpm[names[i]], RSub(RInt(1), product_purity_map(cd, names[i])))])

\* extra_solvent_mass of v69.6: the impurities of the non-solvent ingredients
extra_solvent_mass(cd, solv, tpm) ==
    LET cn == calc_names(cd, solv)
    IN  RSum([i \in 1..Len(cn) |->
                RMul(tpm[cn[i]], RSub(RInt(1), product_purity_map(cd, cn[i])))])

\* total_solvent_active of v69.6 = own_active + extra_solvent_mass
total_solvent_active(cd, solv, tpm) ==
    RAdd(RMul(tpm[solv], product_purity_map(cd, solv)), extra_solvent_mass(cd, solv, tpm))

UpperTolerance == Rat(101, 100)
LowerTolerance == Rat(99, 100)
ActiveLimit == Rat(10001, 100)

\* the check of v69.6 rejecting a low mass when there is no solvent
MassCheckALowRejected(T, solv, tpm, final_sum_mass) ==
    IF RGt(final_sum_mass, RMul(RInt(T), UpperTolerance))
    THEN [is_valid |-> FALSE, reason |-> "Sum(Product) > Total Mass"]
    ELSE IF RLt(final_sum_mass, RMul(RInt(T), LowerTolerance)) /\ ~Truthy(solv)
    THEN [is_valid |-> FALSE, reason |-> "Sum(Product) < Total Mass"]
    ELSE [is_valid |-> TRUE, reason |-> ""]

\* the mass-closure check of v69.6
MassCheckA(T, solv, tpm, final_sum_mass) ==
    IF RGt(final_sum_mass, RMul(RInt(T), UpperTolerance))
    THEN [is_valid |-> FALSE, reason |-> "Sum(Product) > Total Mass"]
    ELSE [is_valid |-> TRUE, reason |-> ""]

\* the check of v73.5 with the negative-solvent test made first
MassCheckBLowerFirst(T, solv, tpm, final_sum_mass) ==
    IF /\ RLt(final_sum_mass, RMul(RInt(T), LowerTolerance))
       /\ Truthy(solv)
       /\ RLt(tpm[solv], Zero)
    THEN [is_valid |-> FALSE, reason |-> "Negative Solvent Required"]
    ELSE IF RGt(final_sum_mass, RMul(RInt(T), UpperTolerance))
    THEN [is_valid |-> FALSE, reason |-> "Sum(Product) > Total Mass"]
    ELSE [is_valid |-> TRUE, reason |-> ""]

\* the mass-closure check of v73.5
MassCheckB(T, solv, tpm, final_sum_mass) ==
    IF RGt(final_sum_mass, RMul(RInt(T), UpperTolerance))
    THEN [is_valid |-> FALSE, reason |-> "Sum(Product) > Total Mass"]
    ELSE IF /\ RLt(final_sum_mass, RMul(RInt(T), LowerTolerance))
            /\ Truthy(solv)
            /\ RLt(tpm[solv], Zero)
         THEN [is_valid |-> FALSE, reason |-> "Negative Solvent Required"]
    ELSE [is_valid |-> TRUE, reason |-> ""]

\* the upper test with its comparison reversed
MassCheckReversed(v, T, solv, tpm, final_sum_mass) ==
    IF RLt(final_sum_mass, RMul(RInt(T), UpperTolerance))
    THEN [is_valid |-> FALSE, reason |-> "Sum(Product) > Total Mass"]
    ELSE [is_valid |-> TRUE, reason |-> ""]

\* the lower test applied without a solvent too
MassCheckStrict(v, T, solv, tpm, final_sum_mass) ==
    IF RGt(final_sum_mass, RMul(RInt(T), UpperTolerance))
    THEN [is_valid |-> FALSE, reason |-> "Sum(Product) > Total Mass"]
    ELSE IF RLt(final_sum_mass, RMul(RInt(T), LowerTolerance))
    THEN [is_valid |-> FALSE, reason |-> "Sum(Product) < Total Mass"]
    ELSE [is_valid |-> TRUE, reason |-> ""]

MassCheck(v, T, solv, tpm, final_sum_mass) ==
    IF v = "A" THEN MassCheckA(T, solv, tpm, final_sum_mass)
    ELSE MassCheckB(T, solv, tpm, final_sum_mass)

\* the active-limit check left out
ActiveCheckKeeps(prev, sum_active_wt) == prev

\* the active-limit check: it relabels whatever the mass-closure check decided
ActiveCheck(prev, sum_active_wt) ==
    IF RGt(sum_active_wt, ActiveLimit)
    THEN [is_valid |-> FALSE, reason |-> "Sum(Active) > 100%"]
    ELSE prev

\* the impurity taken as the pure part: p_mass * purity
impurity_as_purity(cd, tpm, name) == RMul(Get(tpm, name), product_purity_map(cd, name))

\* impurities[name] of v73.5
impurity(cd, tpm, name) ==
    RMul(Get(tpm, name), RSub(RInt(1), product_purity_map(cd, name)))

\* p_mass * purity
intrinsic_active(cd, tpm, name) == RMul(Get(tpm, name), product_purity_map(cd, name))

\* a_mass of v69.6
ActiveMassA(cd, solv, tpm, name) ==
    IF name = solv THEN total_solvent_active(cd, solv, tpm)
    ELSE intrinsic_active(cd, tpm, name)

\* the solvent credited as in v69.6, without its own impurity
ActiveMassBWithoutOwn(cd, solv, tpm, total_impurity_mass, name) ==
    IF name = solv
    THEN RAdd(intrinsic_active(cd, tpm, name),
              RSub(total_impurity_mass, impurity(cd, tpm, name)))
    ELSE intrinsic_active(cd, tpm, name)

\* final_active_mass of v73.5
ActiveMassB(cd, solv, tpm, total_impurity_mass, name) ==
    IF name = solv THEN RAdd(intrinsic_active(cd, tpm, name), total_impurity_mass)
    ELSE intrinsic_active(cd, tpm, name)

\* the fraction, not multiplied by 100
WeightFraction(x, T) == IF T > 0 THEN RDiv(x, RInt(T)) ELSE Zero

\* (x / total_formula_mass) * 100.0 if total_formula_mass > 0 else 0
WeightPercent(x, T) == IF T > 0 THEN RMul(RDiv(x, RInt(T)), RInt(100)) ELSE Zero

\* the mass multiplied by the density
VolumeTimesDensity(cd, mass, name) == RMul(mass, density_map(cd, name))

\* p_vol = p_mass / density_map[name]
Volume(cd, mass, name) == RDiv(mass, density_map(cd, name))

\* the column names of the active figures: fixed in v69.6, by role in v73.5
active_wt_col_map(v, cd, name) ==
    LET c == cd[Index(component_names(cd), name)]
    IN  IF v = "B" /\ c.is_solvent
        THEN Col(name, " (Component Active + Solvent as active, wt) [%]")
        ELSE Col(name, " (Active wt) [%]")

active_mass_col_map(cd, name) ==
    LET c == cd[Index(component_names(cd), name)]
    IN  IF c.is_solvent THEN Col(name, " (Active Mass + Solvent as active) [g]")
        ELSE Col(name, " (Active Mass) [g]")

\* the keys one ingredient gets in the second pass, in assignment order
IngredientCells(v, cd, T, name, mass, imp, act) ==
    LET common ==
            Assign(Assign(Col(name, " (Product mass) [g]") :> mass,
                          Col(name, " (Product volume) [mL]") :> Volume(cd, mass, name)),
                   Col(name, " (Product wt) [%]") :> WeightPercent(mass, T))
    IN  IF v = "A"
        THEN Assign(common, active_wt_col_map(v, cd, name) :> WeightPercent(act, T))
        ELSE Assign(Assign(Assign(common,
                 Col(name, " (Impurity Mass) [g]") :> imp),
                 active_mass_col_map(cd, name) :> act),
                 active_wt_col_map(v, cd, name) :> WeightPercent(act, T))

RECURSIVE AllCells(_, _)
AllCells(cells, i) ==
    IF i > Len(cells) THEN <<>> ELSE Assign(cells[i], AllCells(cells, i + 1))

\* the end of one iteration: the sums, the two checks and the row
FormulaRow(v, cd, T, z, solv, tpm, final_sum_mass, mass, imp, act) ==
    LET names == component_names(cd)
        n == Len(names)
        sum_prod_wt == RSum([i \in 1..n |-> WeightPercent(mass[i], T)])
        sum_active_wt == RSum([i \in 1..n |-> WeightPercent(act[i], T)])
        check == ActiveCheck(MassCheck(v, T, solv, tpm, final_sum_mass), sum_active_wt)
        base == IF v = "A"
                THEN [c \in {Col(names[i], " (Base)") : i \in 1..n} |-> z[Index(names, c[1])]]
                ELSE <<>>
        extra == IF v = "A" /\ Truthy(solv)
                 THEN Assign(ColExtraSolvent :> extra_solvent_mass(cd, solv, tpm),
                             ColTotalSolvent :> total_solvent_active(cd, solv, tpm))
                 ELSE <<>>
        cells == AllCells([i \in 1..n |->
                             IngredientCells(v, cd, T, names[i], mass[i], imp[i], act[i])], 1)
        sums == Assign(Assign(Assign(ColSumMass :> final_sum_mass,
                                     ColSumProdWt :> sum_prod_wt),
                              ColSumActiveWt :> sum_active_wt),
                       ColReason :> check.reason)
    IN  [row_data |-> Assign(Assign(Assign(base, extra), cells), sums),
         is_valid |-> check.is_valid]

\* the active masses, given the impurities (first pass of v73.5)
FormulaActive(v, cd, T, z, solv, tpm, imp, total_impurity_mass) ==
    LET names == component_names(cd)
        n == Len(names)
    IN  FormulaRow(v, cd, T, z, solv, tpm, SumValues(tpm),
                   Eager([i \in 1..n |-> Get(tpm, names[i])]),
                   imp,
                   Eager([i \in 1..n |->
                            IF v = "A" THEN ActiveMassA(cd, solv, tpm, names[i])
                            ELSE ActiveMassB(cd, solv, tpm, total_impurity_mass, names[i])]))

\* the impurities not credited to anything
FormulaMassesNoCredit(v, cd, T, z, solv, tpm, imp) ==
    FormulaActive(v, cd, T, z, solv, tpm, imp, Zero)

\* total_impurity_mass = sum(impurities.values())
FormulaMasses(v, cd, T, z, solv, tpm, imp) ==
    FormulaActive(v, cd, T, z, solv, tpm, imp, RSum(imp))

\* one iteration of the lattice loop for the composition z: the row and its class
Formula(v, cd, T, z, solv, tpm) ==
    LET names == component_names(cd)
    IN  FormulaMasses(v, cd, T, z, solv, tpm,
                      Eager([i \in 1..Len(names) |-> impurity(cd, tpm, names[i])]))

(***************************************************************************)
(* calculate_design: the tables                                            *)
(***************************************************************************)
NaN == "NaN"

\* the keys of a row in insertion order
RowKeys(v, cd, solv) ==
    LET names == component_names(cd)
        n == Len(names)
        per(name) == IF v = "A"
                     THEN << Col(name, " (Product mass) [g]"), Col(name, " (Product volume) [mL]"),
                             Col(name, " (Product wt) [%]"), active_wt_col_map(v, cd, name) >>
                     ELSE << Col(name, " (Product mass) [g]"), Col(name, " (Product volume) [mL]"),
                             Col(name, " (Product wt) [%]"), Col(name, " (Impurity Mass) [g]"),
                             active_mass_col_map(cd, name), active_wt_col_map(v, cd, name) >>
        w == IF v = "A" THEN 4 ELSE 6
    IN  (IF v = "A" THEN [i \in 1..n |-> Col(names[i], " (Base)")] ELSE <<>>)
        \o (IF v = "A" /\ Truthy(solv) THEN <<ColExtraSolvent, ColTotalSolvent>> ELSE <<>>)
        \o [k \in 1..(w * n) |-> per(names[((k - 1) \div w) + 1])[((k - 1) % w) + 1]]
        \o <<ColSumMass, ColSumProdWt, ColSumActiveWt, ColReason>>

\* pd.DataFrame(rows) of rows that all have the keys `keys`
DataFrame(rows, keys) ==
    IF rows = <<>> THEN [columns |-> <<>>, rows |-> <<>>]
    ELSE [columns |-> keys, rows |-> rows]

Empty(df) == df.rows = <<>> \/ df.columns = <<>>

\* every row repeated k times in place (df.loc[df.index.repeat(k)])
RECURSIVE RepeatEach(_, _)
RepeatEach(rows, k) ==
    IF rows = <<>> THEN <<>>
    ELSE [j \in 1..(IF k > 0 THEN k ELSE 0) |-> Head(rows)] \o RepeatEach(Tail(rows), k)

\* pd.concat([df] * k, ignore_index=True)
RECURSIVE ConcatRows(_, _)
ConcatRows(rows, k) == IF k <= 0 THEN <<>> ELSE rows \o ConcatRows(rows, k - 1)

Concat(df, k) == [df EXCEPT !.rows = ConcatRows(df.rows, k)]

\* a draw with replacement (replace=True): the last draw repeats the first
SampleWithReplacement(df, perm) ==
    [df EXCEPT !.rows = [j \in 1..Len(df.rows) |->
                           df.rows[perm[IF j = Len(df.rows) THEN 1 ELSE j]]]]

\* df.sample(frac=1).reset_index(drop=True) when the generator draws perm
Sample(df, perm) == [df EXCEPT !.rows = [j \in 1..Len(df.rows) |-> df.rows[perm[j]]]]

\* range(1, len(df) + 1)
FormulaNumbers(n) == [j \in 1..n |-> j]

\* df.insert(0, 'Formula Number', range(1, len(df) + 1))
InsertFormulaNumber(df) ==
    [columns |-> <<ColFormulaNumber>> \o df.columns,
     rows |-> [j \in 1..Len(df.rows) |->
                 (ColFormulaNumber :> FormulaNumbers(Len(df.rows))[j]) @@ df.rows[j]]]

\* df.reindex(columns=cols)
Reindex(df, cols) ==
    [columns |-> cols,
     rows |-> [j \in 1..Len(df.rows) |->
                 [c \in {cols[i] : i \in 1..Len(cols)} |->
                     IF c \in DOMAIN df.rows[j] THEN df.rows[j][c] ELSE NaN]]]

\* the ingredients taken last to first
ColumnsReversed(cd, suffix) == [i \in 1..Len(cd) |-> Col(cd[Len(cd) + 1 - i].name, suffix)]

ColumnsOf(cd, suffix) == [i \in 1..Len(cd) |-> Col(cd[i].name, suffix)]

\* final_cols of v69.6
FinalColsA(cd, solv) ==
    <<ColFormulaNumber>>
    \o ColumnsOf(cd, " (Product wt) [%]") \o ColumnsOf(cd, " (Active wt) [%]")
    \o ColumnsOf(cd, " (Product mass) [g]") \o ColumnsOf(cd, " (Product volume) [mL]")
    \o <<ColSumMass, ColSumProdWt, ColSumActiveWt>>
    \o (IF Truthy(solv) THEN <<ColExtraSolvent, ColTotalSolvent>> ELSE <<>>)

\* final_cols of v73.5
FinalColsB(cd, solv) ==
    <<ColFormulaNumber>>
    \o ColumnsOf(cd, " (Product mass) [g]") \o ColumnsOf(cd, " (Product volume) [mL]")
    \o [i \in 1..Len(cd) |-> active_mass_col_map(cd, cd[i].name)]
    \o ColumnsOf(cd, " (Impurity Mass) [g]") \o ColumnsOf(cd, " (Product wt) [%]")
    \o [i \in 1..Len(cd) |-> active_wt_col_map("B", cd, cd[i].name)]
    \o <<ColSumMass, ColSumProdWt, ColSumActiveWt>>

FinalCols(v, cd, solv) == IF v = "A" THEN FinalColsA(cd, solv) ELSE FinalColsB(cd, solv)

\* the valid table with the formula numbers inserted before the replication and
\* the shuffle
ValidTableNumberedFirst(v, cd, solv, rows, k, rnd, perm) ==
    LET df0 == DataFrame(rows, RowKeys(v, cd, solv))
        df1 == IF Empty(df0) THEN df0 ELSE InsertFormulaNumber(df0)
        df2 == IF k > 1 THEN Concat(df1, k) ELSE df1
        df3 == IF rnd THEN Sample(df2, perm) ELSE df2
    IN  IF Empty(df0) THEN df0 ELSE Reindex(df3, FinalCols(v, cd, solv))

\* df_valid as returned, when the parameters are k and rnd and sample draws perm
ValidTable(v, cd, solv, rows, k, rnd, perm) ==
    LET df0 == DataFrame(rows, RowKeys(v, cd, solv))
        df1 == IF k > 1 THEN Concat(df0, k) ELSE df0
        df2 == IF rnd THEN Sample(df1, perm) ELSE df1
    IN  IF Empty(df0) THEN df0
        ELSE Reindex(InsertFormulaNumber(df2), FinalCols(v, cd, solv))

RECURSIVE Without(_, _)
Without(s, x) ==
    IF s = <<>> THEN <<>>
    ELSE IF Head(s) = x THEN Without(Tail(s), x) ELSE <<Head(s)>> \o Without(Tail(s), x)

\* the removed table reindexed without dropping 'Formula Number'
RemovedTableWithNumber(v, cd, solv, rows) ==
    LET df0 == DataFrame(rows, RowKeys(v, cd, solv))
    IN  IF Empty(df0) THEN df0 ELSE Reindex(df0, <<ColReason>> \o FinalCols(v, cd, solv))

\* df_removed as returned
RemovedTable(v, cd, solv, rows) ==
    LET df0 == DataFrame(rows, RowKeys(v, cd, solv))
        cols_rem == <<ColReason>> \o Without(FinalCols(v, cd, solv), ColFormulaNumber)
    IN  IF Empty(df0) THEN df0 ELSE Reindex(df0, cols_rem)

(***************************************************************************)
(* The call of calculate_design, step by step                              *)
(***************************************************************************)
EmptyFrame == [columns |-> <<>>, rows |-> <<>>]

CallStart(cd) ==
    /\ component_data = cd
    /\ pc = "validate"
    /\ error = ""
    /\ solvent_component_name = None
    /\ degree_m = None
    /\ total_formula_mass = None
    /\ it = [done |-> TRUE, next |-> <<>>]
    /\ lattice = <<>>
    /\ valid_rows = <<>>
    /\ removed_rows = <<>>
    /\ replicate = None
    /\ randomize = None
    /\ final_cols = <<>>
    /\ df_valid = EmptyFrame
    /\ df_removed = EmptyFrame

\* the engine called with any configuration of the input contract's shape
Init ==
    /\ variant \in {"A", "B"}
    /\ component_rows = <<>>
    /\ \E n \in 2..Len(Names) :
          \E ps \in [1..n -> Profiles], sv \in [1..n -> BOOLEAN] :
             CallStart(Configuration(n, ps, sv))

\* lines 91-108 (v69.6), 122-166 (v73.5)
Validate ==
    /\ pc = "validate"
    /\ LET e == ValidationError(variant, component_data)
       IN  /\ error' = e
           /\ pc' = IF e = "" THEN "lattice" ELSE "error"
           /\ solvent_component_name' =
                 IF solvent_count(component_data) > 1 THEN None
                 ELSE SolventName(component_data)
    /\ UNCHANGED <<variant, component_rows, component_data, degree_m, total_formula_mass,
                   it, lattice, valid_rows, removed_rows, replicate, randomize,
                   final_cols, df_valid, df_removed>>

\* the for statement creates the iterator: degree_m and total_formula_mass are read
\* from here on
BeginLatticeWith(m, T) ==
    /\ pc = "lattice"
    /\ degree_m' = m
    /\ total_formula_mass' = T
    /\ it' = ProductFirst(m, Len(component_data))
    /\ pc' = "loop"
    /\ UNCHANGED <<variant, component_rows, component_data, error, solvent_component_name,
                   lattice, valid_rows, removed_rows, replicate, randomize,
                   final_cols, df_valid, df_removed>>

\* the engine called with any degree and total mass
BeginLattice == \E m \in Degrees, T \in TotalMasses : BeginLatticeWith(m, T)

\* the row of one iteration goes to valid_rows or to removed_rows
AppendFormula(f) ==
    /\ valid_rows' = IF f.is_valid THEN Append(valid_rows, f.row_data) ELSE valid_rows
    /\ removed_rows' = IF f.is_valid THEN removed_rows ELSE Append(removed_rows, f.row_data)

\* the body of the loop for the tuple i.next, or the end of the loop
LoopBody(i, z) ==
    IF i.done
    THEN /\ pc' = "assemble"
         /\ it' = i
         /\ UNCHANGED <<error, lattice, valid_rows, removed_rows>>
    ELSE IF degree_m = 0
    THEN \* x / degree_m raises ZeroDivisionError
         /\ pc' = "error"
         /\ error' = "ZeroDivisionError"
         /\ it' = ProductSucc(degree_m, i.next)
         /\ lattice' = Append(lattice, [p_tuple |-> i.next, z |-> <<>>])
         /\ UNCHANGED <<valid_rows, removed_rows>>
    ELSE /\ AppendFormula(Formula(variant, component_data, total_formula_mass, z,
                                  solvent_component_name,
                                  temp_product_masses(component_data, total_formula_mass, z,
                                                      solvent_component_name)))
         /\ lattice' = Append(lattice, [p_tuple |-> i.next, z |-> z])
         /\ it' = ProductSucc(degree_m, i.next)
         /\ UNCHANGED <<pc, error>>

LoopAt(i) == LoopBody(i, IF i.done \/ degree_m = 0 THEN <<>> ELSE Eager(ZVector(i.next, degree_m)))

\* the iterations of the loop up to and including the next tuple that passes the
\* filter, or up to the end of the loop
LatticeStep ==
    /\ pc = "loop"
    /\ LoopAt(NextLatticePoint(degree_m, it))
    /\ UNCHANGED <<variant, component_rows, component_data, solvent_component_name,
                   degree_m, total_formula_mass, replicate, randomize,
                   final_cols, df_valid, df_removed>>

Identity(n) == [j \in 1..n |-> j]

\* lines 187-210 (v69.6), 268-303 (v73.5): replicate and randomize are read here
\* (sample draws any permutation; tables of more than MaxShuffleRows rows are
\* not shuffled in the model)
AssembleWith(k, rnd) ==
    /\ pc = "assemble"
    /\ LET n == (IF k > 1 THEN k ELSE 1) * Len(valid_rows)
       IN  /\ rnd => n <= MaxShuffleRows
           /\ \E perm \in (IF rnd /\ n > 0 THEN Permutations(1..n) ELSE {Identity(n)}) :
                 /\ replicate' = k
                 /\ randomize' = rnd
                 /\ df_valid' = ValidTable(variant, component_data, solvent_component_name,
                                           valid_rows, k, rnd, perm)
    /\ df_removed' = RemovedTable(variant, component_data, solvent_component_name, removed_rows)
    /\ final_cols' = FinalCols(variant, component_data, solvent_component_name)
    /\ pc' = "done"
    /\ UNCHANGED <<variant, component_rows, component_data, error, solvent_component_name,
                   degree_m, total_formula_mass, it, lattice, valid_rows, removed_rows>>

\* the engine called with any replicate factor and either value of randomize
Assemble == \E k \in Replicates, rnd \in BOOLEAN : AssembleWith(k, rnd)

\* a call whose two row lists were created once, outside the function, and
\* are kept from call to call
CallAgainKeepingRows ==
    /\ pc \in {"done", "error"}
    /\ pc' = "validate"
    /\ error' = ""
    /\ solvent_component_name' = None
    /\ degree_m' = None
    /\ total_formula_mass' = None
    /\ it' = [done |-> TRUE, next |-> <<>>]
    /\ lattice' = <<>>
    /\ replicate' = None
    /\ randomize' = None
    /\ final_cols' = <<>>
    /\ df_valid' = EmptyFrame
    /\ df_removed' = EmptyFrame
    /\ UNCHANGED <<variant, component_rows, component_data, valid_rows, removed_rows>>

\* calculate_design is called again with the same component_data, after a call
\* that has returned or raised: the parameters are bound anew and every local
\* of the new call is new
CallAgain ==
    /\ pc \in {"done", "error"}
    /\ pc' = "validate"
    /\ error' = ""
    /\ solvent_component_name' = None
    /\ degree_m' = None
    /\ total_formula_mass' = None
    /\ it' = [done |-> TRUE, next |-> <<>>]
    /\ lattice' = <<>>
    /\ valid_rows' = <<>>
    /\ removed_rows' = <<>>
    /\ replicate' = None
    /\ randomize' = None
    /\ final_cols' = <<>>
    /\ df_valid' = EmptyFrame
    /\ df_removed' = EmptyFrame
    /\ UNCHANGED <<variant, component_rows, component_data>>

Next == Validate \/ BeginLattice \/ LatticeStep \/ Assemble \/ CallAgain

Spec == Init /\ [][Next]_vars

(***************************************************************************)
(* The widget interface: the ingredient rows and the GENERATE handler.     *)
(* The numeric fields of a row and the global settings keep the values     *)
(* they are constructed with; the events are the two buttons of a row      *)
(* list (add, delete), the name field, the solvent checkbox and GENERATE.  *)
(***************************************************************************)
MaxRows == 3

\* values of the widgets at construction
w_degree == 3
w_mass == 100
w_reps == 1
w_rand == FALSE
DefaultPercent == 100
DefaultDensity == 1
DefaultRows == 3

\* what the user may type into a name field
NameTexts == { <<"X">>, <<" ", "X">>, <<" ">> }

\* f'Ingredient {idx}' (v69.6), f'Component {idx}' (v73.5)
DefaultName(v, idx) == <<IF v = "A" THEN "Ingredient" ELSE "Component", " ", ToString(idx)>>

\* str.strip()
RECURSIVE LStrip(_)
LStrip(t) == IF t # <<>> /\ Head(t) = " " THEN LStrip(Tail(t)) ELSE t

RECURSIVE RStrip(_)
RStrip(t) == IF t # <<>> /\ t[Len(t)] = " " THEN RStrip(SubSeq(t, 1, Len(t) - 1)) ELSE t

Strip(t) == RStrip(LStrip(t))

\* row['w_name'].value.strip() or "Unnamed"
c_name(text) == IF Truthy(Strip(text)) THEN Strip(text) ELSE Str("Unnamed")

\* the row add_ingredient_row appends when the list has n rows
NewRow(v, n) ==
    [w_name |-> DefaultName(v, n + 1), w_purity |-> DefaultPercent, w_max |-> DefaultPercent,
     w_dens |-> DefaultDensity, w_solvent |-> FALSE]

\* comp_data[key] = entry: a key the dict holds keeps its place
DictPut(cd, entry) ==
    IF \E i \in 1..Len(cd) : cd[i].name = entry.name
    THEN [i \in 1..Len(cd) |-> IF cd[i].name = entry.name THEN entry ELSE cd[i]]
    ELSE Append(cd, entry)

\* comp_data after the loop of on_run over the first k rows
RECURSIVE CompData(_, _)
CompData(rows, k) ==
    IF k = 0 THEN <<>>
    ELSE DictPut(CompData(rows, k - 1),
                 [name |-> c_name(rows[k].w_name),
                  product_active_wt_perc |-> rows[k].w_purity,
                  maximum_active_wt_perc |-> rows[k].w_max,
                  density |-> rows[k].w_dens,
                  is_solvent |-> rows[k].w_solvent])

InitGui ==
    /\ variant \in {"A", "B"}
    /\ component_rows = [i \in 1..DefaultRows |-> NewRow(variant, i - 1)]
    /\ component_data = <<>>
    /\ pc = "idle"
    /\ error = ""
    /\ solvent_component_name = None
    /\ degree_m = None
    /\ total_formula_mass = None
    /\ it = [done |-> TRUE, next |-> <<>>]
    /\ lattice = <<>>
    /\ valid_rows = <<>>
    /\ removed_rows = <<>>
    /\ replicate = None
    /\ randomize = None
    /\ final_cols = <<>>
    /\ df_valid = EmptyFrame
    /\ df_removed = EmptyFrame

EngineVars == <<component_data, pc, error, solvent_component_name, degree_m,
                total_formula_mass, it, lattice, valid_rows, removed_rows, replicate,
                randomize, final_cols, df_valid, df_removed>>

\* btn_add.on_click
add_ingredient_row ==
    /\ pc = "idle"
    /\ Len(component_rows) < MaxRows
    /\ component_rows' = Append(component_rows, NewRow(variant, Len(component_rows)))
    /\ UNCHANGED <<variant, EngineVars>>

\* btn_del.on_click of row i
delete_row(i) ==
    /\ pc = "idle"
    /\ component_rows' = [j \in 1..(Len(component_rows) - 1) |->
                            IF j < i THEN component_rows[j] ELSE component_rows[j + 1]]
    /\ UNCHANGED <<variant, EngineVars>>

\* the user types text into the name field of row i
EditName(i, text) ==
    /\ pc = "idle"
    /\ component_rows' = [component_rows EXCEPT ![i].w_name = text]
    /\ UNCHANGED <<variant, EngineVars>>

\* A checkbox notifies its observer when its value changes, and only then. The
\* three operators below follow one change through the callbacks it sets
\* off: st.rows are the rows and st.calls counts the callbacks run so far.
RECURSIVE SetValue(_, _, _)
RECURSIVE UncheckOthers(_, _, _)

\* a callback that leaves the other checkboxes as they are
ObserverIdle(st, i, new) == [st EXCEPT !.calls = @ + 1]

\* on_solvent_change(change) with change['owner'] the checkbox of row i and
\* change['new'] = new
Observer(st, i, new) ==
    IF new THEN UncheckOthers([st EXCEPT !.calls = @ + 1], i, 1)
    ELSE [st EXCEPT !.calls = @ + 1]

\* row['w_solvent'].value = val for row j
SetValue(st, j, val) ==
    IF st.rows[j].w_solvent = val THEN st
    ELSE Observer([st EXCEPT !.rows[j].w_solvent = val], j, val)

\* the for loop of on_solvent_change from row j on
UncheckOthers(st, i, j) ==
    IF j > Len(st.rows) THEN st
    ELSE UncheckOthers(IF j # i THEN SetValue(st, j, FALSE) ELSE st, i, j + 1)

\* what a click on the 'Is Solvent' checkbox of row i makes of the rows
Click(rows, i) == SetValue([rows |-> rows, calls |-> 0], i, ~rows[i].w_solvent)

\* the user clicks the 'Is Solvent' checkbox of row i; on_solvent_change runs for
\* the change and for every change it makes
on_solvent_change(i) ==
    /\ pc = "idle"
    /\ component_rows' = Click(component_rows, i).rows
    /\ UNCHANGED <<variant, EngineVars>>

\* btn_run.on_click up to the call of calculate_design
on_run ==
    /\ pc = "idle"
    /\ IF Len(component_rows) < 2
       THEN UNCHANGED <<component_data, pc>>
       ELSE /\ component_data' = CompData(component_rows, Len(component_rows))
            /\ pc' = "validate"
    /\ UNCHANGED <<variant, component_rows, error, solvent_component_name, degree_m,
                   total_formula_mass, it, lattice, valid_rows, removed_rows, replicate,
                   randomize, final_cols, df_valid, df_removed>>

\* calculate_design as on_run calls it
GuiBeginLattice == BeginLatticeWith(w_degree, w_mass)
GuiAssemble == AssembleWith(w_reps, w_rand)

NextGui ==
    \/ add_ingredient_row
    \/ \E i \in 1..Len(component_rows) : delete_row(i)
    \/ \E i \in 1..Len(component_rows), text \in NameTexts : EditName(i, text)
    \/ \E i \in 1..Len(component_rows) : on_solvent_change(i)
    \/ on_run
    \/ Validate \/ GuiBeginLattice \/ LatticeStep \/ GuiAssemble

SpecGui == InitGui /\ [][NextGui]_vars

(***************************************************************************)
(* Properties of calculate_design                                          *)
(***************************************************************************)
RECURSIVE Binomial(_, _)
Binomial(n, k) ==
    IF k = 0 THEN 1
    ELSE IF n = 0 THEN 0
    ELSE Binomial(n - 1, k - 1) + Binomial(n - 1, k)

\* the messages of the ValueErrors the validation raises
ConfigErrors ==
    {"Multiple ingredients marked as 'Is Solvent'", "Max Active > Purity",
     "Percentages must be 0-100", "density must be > 0"}

\* the for statement of the lattice loop has been reached
InLoop == pc \in {"loop", "assemble", "done"} \/ (pc = "error" /\ error = "ZeroDivisionError")

RAbs(a) == <<Abs(a[1]), a[2]>>

SansNumber(row) == [c \in DOMAIN row \ {ColFormulaNumber} |-> row[c]]

SansNumbers(rows) == [j \in 1..Len(rows) |-> SansNumber(rows[j])]

Count(rows, r) == Cardinality({j \in 1..Len(rows) : rows[j] = r})

\* the valid table the call returns for replicate k, randomize false
Unshuffled(k) ==
    ValidTable(variant, component_data, solvent_component_name, valid_rows, k, FALSE,
               Identity((IF k > 1 THEN k ELSE 1) * Len(valid_rows)))

\* C1: for degree m >= 1 and n >= 2 ingredients the lattice loop processes no
\* tuple twice, every vector it processes has the components k_i / m, all
\* non-negative and summing to exactly 1, every vector gives one row, and when
\* the loop has ended it has processed exactly C(m + n - 1, n - 1) vectors.
C1_LatticeVectors ==
    (pc \in {"loop", "assemble", "done"} /\ degree_m >= 1) =>
        LET n == Len(component_data)
        IN  /\ \A a, b \in 1..Len(lattice) :
                  a # b => lattice[a].p_tuple # lattice[b].p_tuple
            /\ \A a \in 1..Len(lattice) :
                  LET z == lattice[a].z
                  IN  /\ Len(z) = n
                      /\ \A i \in 1..n : z[i] = Rat(lattice[a].p_tuple[i], degree_m)
                                         /\ z[i][1] >= 0
                      /\ RSum(z) = <<1, 1>>
            /\ Len(valid_rows) + Len(removed_rows) = Len(lattice)
            /\ pc \in {"assemble", "done"} =>
                  Len(lattice) = Binomial(degree_m + n - 1, n - 1)

C1_Witness ==
    /\ pc = "done"
    /\ degree_m = 2
    /\ Len(component_data) = 3
    /\ Len(lattice) = 6

\* C2: with two or more ingredients flagged is_solvent the call never gets past
\* the validation, which ends it with the multiple-solvent ValueError: no
\* vector is generated and no row is added to valid_rows or removed_rows.
C2_MultipleSolvents ==
    solvent_count(component_data) >= 2 =>
        /\ pc \in {"validate", "error"}
        /\ pc = "error" => error = "Multiple ingredients marked as 'Is Solvent'"
        /\ lattice = <<>> /\ valid_rows = <<>> /\ removed_rows = <<>>

C2_Witness ==
    /\ pc = "error"
    /\ solvent_count(component_data) = 2
    /\ Len(component_data) = 3

\* C3: with some ingredient whose maximum_active_wt_perc exceeds its
\* product_active_wt_perc the call never gets past the validation, which ends
\* it with a ValueError, whatever the other ingredients are.
C3_MaxActiveAbovePurity ==
    (\E i \in 1..Len(component_data) :
        component_data[i].maximum_active_wt_perc > component_data[i].product_active_wt_perc) =>
        /\ pc \in {"validate", "error"}
        /\ pc = "error" => error \in ConfigErrors
        /\ lattice = <<>> /\ valid_rows = <<>> /\ removed_rows = <<>>

C3_Witness ==
    /\ pc = "error"
    /\ error = "Max Active > Purity"
    /\ component_data[1].maximum_active_wt_perc <= component_data[1].product_active_wt_perc
    /\ component_data[2].maximum_active_wt_perc > component_data[2].product_active_wt_perc

\* C4: in both variants, with some purity or max-active percent outside
\* [0, 100] the call never gets past the validation, which ends it with a
\* ValueError.
C4_PercentRange ==
    (\E i \in 1..Len(component_data) :
        \/ component_data[i].product_active_wt_perc \notin 0..100
        \/ component_data[i].maximum_active_wt_perc \notin 0..100) =>
        /\ pc \in {"validate", "error"}
        /\ pc = "error" => error \in ConfigErrors
        /\ lattice = <<>>

\* C5: after any sequence of add, delete and rename events followed by
\* GENERATE, a call of calculate_design with fewer than 2 ingredients (rows of
\* equal names are one key of comp_data) never gets past the validation, which
\* ends it with a ValueError: no lattice point is generated.
C5_FewerThanTwoIngredients ==
    (pc # "idle" /\ Len(component_data) < 2) =>
        /\ pc \in {"validate", "error"}
        /\ pc = "error" => error \in ConfigErrors
        /\ lattice = <<>>

\* C6: with degree_m < 1 the call ends with a ValueError before any lattice
\* point is generated: it processes no tuple and returns no tables.
C6_DegreeBelowOne ==
    (InLoop /\ degree_m < 1) =>
        /\ pc \notin {"assemble", "done"}
        /\ pc = "error" => error \in ConfigErrors
        /\ lattice = <<>>

\* C7: with a solvent designated, every row that is kept as valid, in the loop
\* and in the valid table returned, has
\* |Sum (Product mass) - total_formula_mass| <= 0.01 * total_formula_mass.
C7_MassClosure ==
    Truthy(solvent_component_name) =>
        /\ \A j \in 1..Len(valid_rows) :
              RLe(RAbs(RSub(valid_rows[j][ColSumMass], RInt(total_formula_mass))),
                  Rat(total_formula_mass, 100))
        /\ \A j \in 1..Len(df_valid.rows) :
              RLe(RAbs(RSub(df_valid.rows[j][ColSumMass], RInt(total_formula_mass))),
                  Rat(total_formula_mass, 100))

C7_Witness ==
    /\ pc = "done"
    /\ Truthy(solvent_component_name)
    /\ total_formula_mass = 100
    /\ \E j \in 1..Len(df_valid.rows), i \in 1..Len(component_data) :
          /\ component_data[i].name # solvent_component_name
          /\ RGt(df_valid.rows[j][Col(component_data[i].name, " (Product mass) [g]")], Zero)
          /\ RGt(df_valid.rows[j][Col(solvent_component_name, " (Product mass) [g]")], Zero)

\* C8: with randomize false and replicate k the valid table has k * |V| rows,
\* V being the valid table of the same call with replicate 1, and row j
\* (0-based) equals row (j mod |V|) of V in every column but the formula number.
C8_Replication ==
    (pc = "done" /\ randomize = FALSE) =>
        LET V == Unshuffled(1).rows
        IN  /\ Len(df_valid.rows) = replicate * Len(V)
            /\ \A j \in 1..Len(df_valid.rows) :
                  SansNumber(df_valid.rows[j]) = SansNumber(V[((j - 1) % Len(V)) + 1])

C8_Witness ==
    /\ pc = "done"
    /\ randomize = FALSE
    /\ replicate = 2
    /\ Len(df_valid.rows) = 6
    /\ SansNumber(df_valid.rows[1]) # SansNumber(df_valid.rows[2])
    /\ SansNumber(df_valid.rows[4]) = SansNumber(df_valid.rows[1])

\* C9: with randomize true the valid table holds, whatever the shuffle draws,
\* every row of the randomize false table of the same call as often as that
\* table does, the formula number and the order aside.
C9_ShuffleIsPermutation ==
    (pc = "done" /\ randomize = TRUE) =>
        LET U == SansNumbers(Unshuffled(replicate).rows)
            S == SansNumbers(df_valid.rows)
        IN  /\ Len(S) = Len(U)
            /\ \A j \in 1..Len(U) : Count(S, U[j]) = Count(U, U[j])
            /\ \A j \in 1..Len(S) : Count(U, S[j]) = Count(S, S[j])

C9_Witness ==
    /\ pc = "done"
    /\ randomize = TRUE
    /\ replicate = 2
    /\ Len(df_valid.rows) = 4
    /\ SansNumbers(df_valid.rows) # SansNumbers(Unshuffled(replicate).rows)

\* C10: in every non-empty valid table returned, for every replicate and either
\* value of randomize, the formula number of the row at position j is j: the
\* numbers are 1..N in row order.
C10_FormulaNumbers ==
    (pc = "done" /\ df_valid.rows # <<>>) =>
        \A j \in 1..Len(df_valid.rows) : df_valid.rows[j][ColFormulaNumber] = j

C10_Witness ==
    /\ pc = "done"
    /\ randomize = TRUE
    /\ replicate = 2
    /\ Len(df_valid.rows) = 4
    /\ SansNumber(df_valid.rows[1]) # SansNumber(Unshuffled(1).rows[1])
    /\ df_valid.rows[4][ColFormulaNumber] = 4

ProductWt(row, i) == row[Col(component_data[i].name, " (Product wt) [%]")]

ProductMass(row, i) == row[Col(component_data[i].name, " (Product mass) [g]")]

\* the call of the first example: two pure non-solvent ingredients, degree 2,
\* total mass 100, replicate 1, randomize false
Example1 ==
    /\ pc = "done"
    /\ Len(component_data) = 2
    /\ \A i \in 1..2 : /\ component_data[i].product_active_wt_perc = 100
                       /\ component_data[i].maximum_active_wt_perc = 100
                       /\ ~component_data[i].is_solvent
    /\ degree_m = 2
    /\ total_formula_mass = 100
    /\ replicate = 1
    /\ randomize = FALSE

\* C11: the call of the first example returns a valid table of exactly 3 rows
\* whose product weight-percent pairs are (0,100), (50,50), (100,0) in row
\* order, Sum (Product mass) is 100 in each row, and the removed table is empty.
C11_ExampleNoSolvent ==
    Example1 =>
        /\ Len(df_valid.rows) = 3
        /\ [j \in 1..3 |-> <<ProductWt(df_valid.rows[j], 1), ProductWt(df_valid.rows[j], 2)>>]
              = << <<RInt(0), RInt(100)>>, <<RInt(50), RInt(50)>>, <<RInt(100), RInt(0)>> >>
        /\ \A j \in 1..3 : df_valid.rows[j][ColSumMass] = RInt(100)
        /\ Empty(df_removed)
        /\ removed_rows = <<>>

C11_Witness == Example1 /\ variant = "A" /\ Len(df_valid.rows) = 3

\* the call of the second example, once the loop has ended: v73.5, A with
\* purity 90 and max active 50, B the solvent with purity 100, degree 1, total
\* mass 100
Example2 ==
    /\ pc \in {"assemble", "done"}
    /\ variant = "B"
    /\ Len(component_data) = 2
    /\ component_data[1].product_active_wt_perc = 90
    /\ component_data[1].maximum_active_wt_perc = 50
    /\ ~component_data[1].is_solvent
    /\ component_data[2].product_active_wt_perc = 100
    /\ component_data[2].is_solvent
    /\ degree_m = 1
    /\ total_formula_mass = 100

\* C12: in the second example the formula of z = (1, 0), the second of the two
\* the loop processes, has product mass 500/9 for A and 400/9 for the solvent,
\* impurity 50/9 for A, solvent active mass 50, Sum (Active weight) 100, and it
\* is appended to valid_rows.
C12_ExampleSolvent ==
    Example2 =>
        /\ Len(lattice) = 2
        /\ lattice[2].z = <<RInt(1), RInt(0)>>
        /\ removed_rows = <<>>
        /\ Len(valid_rows) = 2
        /\ LET row == valid_rows[2]
               a == component_data[1].name
               b == component_data[2].name
           IN  /\ row[Col(a, " (Product mass) [g]")] = Rat(500, 9)
               /\ row[Col(b, " (Product mass) [g]")] = Rat(400, 9)
               /\ row[Col(a, " (Impurity Mass) [g]")] = Rat(50, 9)
               /\ row[Col(b, " (Active Mass + Solvent as active) [g]")] = RInt(50)
               /\ row[ColSumActiveWt] = RInt(100)
               /\ row[ColReason] = ""

C12_Witness == Example2 /\ pc = "done" /\ Len(df_valid.rows) >= 2

\* C13: in a call that has passed the validation every composition vector
\* gives one row, which is in valid_rows or in removed_rows, no error other than
\* the validation's ends the call, and when the loop has ended
\* |valid_rows| + |removed_rows| = C(degree_m + n - 1, n - 1).
C13_RowPartition ==
    /\ pc = "error" => error \in ConfigErrors
    /\ pc \in {"loop", "assemble", "done"} =>
          Len(valid_rows) + Len(removed_rows) = Len(lattice)
    /\ pc \in {"assemble", "done"} =>
          Len(valid_rows) + Len(removed_rows) =
             Binomial(degree_m + Len(component_data) - 1, Len(component_data) - 1)

\* the g-th per-ingredient group of final_cols is the columns `suffix` of the
\* ingredients in the order of component_data
GroupIs(g, suffix) ==
    \A i \in 1..Len(component_data) :
        final_cols[1 + (g - 1) * Len(component_data) + i] = Col(component_data[i].name, suffix)

\* the same for a group whose column name depends on the ingredient being the solvent
GroupIsByRole(g, suffix, solvent_suffix) ==
    \A i \in 1..Len(component_data) :
        final_cols[1 + (g - 1) * Len(component_data) + i] =
            Col(component_data[i].name,
                IF component_data[i].is_solvent THEN solvent_suffix ELSE suffix)

\* the three summary columns are at the positions first .. first + 2
SummaryAt(first) ==
    /\ final_cols[first] = ColSumMass
    /\ final_cols[first + 1] = ColSumProdWt
    /\ final_cols[first + 2] = ColSumActiveWt

\* C14 as claimed: in both variants final_cols is the formula number, the
\* groups product mass, product volume, active mass, (v73.5: impurity mass),
\* product weight-percent, active weight-percent, each in the order of the
\* configuration, and the three summary columns as the trailing columns.
C14_SchemaAsClaimed ==
    pc = "done" =>
        LET n == Len(component_data)
            G == IF variant = "A" THEN 5 ELSE 6
            s == IF variant = "A" THEN 0 ELSE 1
        IN  /\ Len(final_cols) = 1 + G * n + 3
            /\ final_cols[1] = ColFormulaNumber
            /\ GroupIs(1, " (Product mass) [g]")
            /\ GroupIs(2, " (Product volume) [mL]")
            /\ GroupIsByRole(3, " (Active Mass) [g]", " (Active Mass + Solvent as active) [g]")
            /\ variant = "B" => GroupIs(4, " (Impurity Mass) [g]")
            /\ GroupIs(4 + s, " (Product wt) [%]")
            /\ \/ GroupIs(5 + s, " (Active wt) [%]")
               \/ GroupIsByRole(5 + s, " (Active wt) [%]",
                                " (Component Active + Solvent as active, wt) [%]")
            /\ SummaryAt(Len(final_cols) - 2)

\* C14 amended: in v73.5 final_cols is as claimed, the active columns of the
\* solvent under their composite names; in v69.6 it is the formula number, the
\* groups product weight-percent, active weight-percent, product mass, product
\* volume (there is no active mass group), the three summary columns and, when
\* a solvent is designated, the two solvent columns after them.
C14_SchemaByVariant ==
    pc = "done" =>
        LET n == Len(component_data)
        IN  /\ final_cols[1] = ColFormulaNumber
            /\ variant = "B" =>
                  /\ Len(final_cols) = 1 + 6 * n + 3
                  /\ GroupIs(1, " (Product mass) [g]")
                  /\ GroupIs(2, " (Product volume) [mL]")
                  /\ GroupIsByRole(3, " (Active Mass) [g]",
                                   " (Active Mass + Solvent as active) [g]")
                  /\ GroupIs(4, " (Impurity Mass) [g]")
                  /\ GroupIs(5, " (Product wt) [%]")
                  /\ GroupIsByRole(6, " (Active wt) [%]",
                                   " (Component Active + Solvent as active, wt) [%]")
                  /\ SummaryAt(Len(final_cols) - 2)
            /\ variant = "A" =>
                  /\ Len(final_cols) =
                        1 + 4 * n + 3 + (IF Truthy(solvent_component_name) THEN 2 ELSE 0)
                  /\ GroupIs(1, " (Product wt) [%]")
                  /\ GroupIs(2, " (Active wt) [%]")
                  /\ GroupIs(3, " (Product mass) [g]")
                  /\ GroupIs(4, " (Product volume) [mL]")
                  /\ SummaryAt(2 + 4 * n)
                  /\ Truthy(solvent_component_name) =>
                        /\ final_cols[5 + 4 * n] = ColExtraSolvent
                        /\ final_cols[6 + 4 * n] = ColTotalSolvent

C14_Witness ==
    /\ pc = "done"
    /\ Len(component_data) = 3
    /\ component_data[2].is_solvent
    /\ Len(final_cols) > 3 * Len(component_data)

Positions(cols, c) == {i \in 1..Len(cols) : cols[i] = c}

ColumnSet(df) == {df.columns[i] : i \in 1..Len(df.columns)}

\* a non-empty valid table has the columns of final_cols, the formula number
\* among them and the reason not
ValidTableColumns ==
    ~Empty(df_valid) =>
        /\ df_valid.columns = final_cols
        /\ Positions(df_valid.columns, ColFormulaNumber) # {}
        /\ Positions(df_valid.columns, ColReason) = {}
        /\ \A j \in 1..Len(df_valid.rows) : DOMAIN df_valid.rows[j] = ColumnSet(df_valid)

\* C15 as claimed: a non-empty removed table has the columns of final_cols
\* without the formula number, in the same relative order, and the reason
\* column after the summary columns; a non-empty valid table has the formula
\* number column and no reason column.
C15_RemovedColumnsAsClaimed ==
    pc = "done" =>
        /\ ValidTableColumns
        /\ ~Empty(df_removed) =>
              /\ Without(df_removed.columns, ColReason) = Without(final_cols, ColFormulaNumber)
              /\ Positions(df_removed.columns, ColFormulaNumber) = {}
              /\ \E r \in Positions(df_removed.columns, ColReason) :
                    \A c \in {ColSumMass, ColSumProdWt, ColSumActiveWt} :
                        \A i \in Positions(df_removed.columns, c) : i < r

\* C15 amended: a non-empty removed table has the reason column first and then
\* the columns of final_cols without the formula number, in the same relative
\* order; a non-empty valid table has the formula number column and no reason
\* column.
C15_RemovedColumns ==
    pc = "done" =>
        /\ ValidTableColumns
        /\ ~Empty(df_removed) =>
              /\ df_removed.columns[1] = ColReason
              /\ Tail(df_removed.columns) = Without(final_cols, ColFormulaNumber)
              /\ Positions(df_removed.columns, ColFormulaNumber) = {}
              /\ Positions(df_removed.columns, ColReason) = {1}
              /\ \A j \in 1..Len(df_removed.rows) :
                    DOMAIN df_removed.rows[j] = ColumnSet(df_removed)

C15_Witness ==
    /\ pc = "done"
    /\ ~Empty(df_removed)
    /\ ~Empty(df_valid)
    /\ Truthy(solvent_component_name)

\* all tuples of length n over 0..m, the first position slowest
RECURSIVE Tuples(_, _)
RECURSIVE TuplesFrom(_, _, _)
Tuples(m, n) == IF n = 0 THEN << <<>> >> ELSE TuplesFrom(m, n, 0)

TuplesFrom(m, n, a) ==
    IF a > m THEN <<>>
    ELSE LET rest == Tuples(m, n - 1)
         IN  [j \in 1..Len(rest) |-> <<a>> \o rest[j]] \o TuplesFrom(m, n, a + 1)

\* the classified rows of the tuples ts[i..] that sum to m
RECURSIVE RowsOf(_, _, _, _, _, _, _)
RowsOf(v, cd, m, T, solv, ts, i) ==
    IF i > Len(ts) THEN <<>>
    ELSE IF ISum(ts[i]) # m THEN RowsOf(v, cd, m, T, solv, ts, i + 1)
    ELSE <<Formula(v, cd, T, ZVector(ts[i], m), solv,
                   temp_product_masses(cd, T, ZVector(ts[i], m), solv))>>
         \o RowsOf(v, cd, m, T, solv, ts, i + 1)

RECURSIVE RowsWhere(_, _)
RowsWhere(fs, valid) ==
    IF fs = <<>> THEN <<>>
    ELSE (IF Head(fs).is_valid = valid THEN <<Head(fs).row_data>> ELSE <<>>)
         \o RowsWhere(Tail(fs), valid)

DesignOfRows(v, cd, solv, k, fs) ==
    [valid |-> ValidTable(v, cd, solv, RowsWhere(fs, TRUE), k, FALSE,
                          Identity((IF k > 1 THEN k ELSE 1) * Len(RowsWhere(fs, TRUE)))),
     removed |-> RemovedTable(v, cd, solv, RowsWhere(fs, FALSE)),
     cols |-> FinalCols(v, cd, solv)]

\* what a call with randomize false returns, as a function of its inputs alone
Design(v, cd, m, T, k) ==
    DesignOfRows(v, cd, SolventName(cd), k,
                 RowsOf(v, cd, m, T, SolventName(cd), Tuples(m, Len(cd)), 1))

ResultOfInputs(d) ==
    /\ df_valid = d.valid
    /\ df_removed = d.removed
    /\ final_cols = d.cols

\* a call starts with empty row lists and, with randomize false, what it
\* returns is a function of its inputs, whatever calls came before
FunctionOfInputs ==
    /\ pc \in {"validate", "lattice"} => valid_rows = <<>> /\ removed_rows = <<>>
    /\ (pc = "done" /\ randomize = FALSE) =>
          ResultOfInputs(Design(variant, component_data, degree_m, total_formula_mass,
                                replicate))

\* C16: with randomize false two calls of calculate_design with equal inputs
\* return equal valid tables, removed tables and column schemas, formula
\* numbers included: what a call returns is a function of its inputs, no call
\* leaves state that a later call reads, and no step changes component_data.
C16_Deterministic == [][component_data' = component_data]_vars /\ []FunctionOfInputs

C16_Witness ==
    /\ pc = "done"
    /\ randomize = FALSE
    /\ replicate = 2
    /\ Len(df_valid.rows) >= 4
    /\ ~Empty(df_removed)
    /\ df_valid.rows[Len(df_valid.rows)][ColFormulaNumber] = Len(df_valid.rows)

\* Sum (Product mass) > 1.01 * total_formula_mass
MassOver(row) == RGt(row[ColSumMass], RMul(RInt(total_formula_mass), Rat(101, 100)))

\* Sum (Product mass) < 0.99 * total_formula_mass
MassUnder(row) == RLt(row[ColSumMass], RMul(RInt(total_formula_mass), Rat(99, 100)))

\* Sum (Active weight) > 100.01
ActiveOver(row) == RGt(row[ColSumActiveWt], Rat(10001, 100))

RowSet(rows) == {rows[j] : j \in 1..Len(rows)}

\* C17: a formula with Sum (Product mass) > 1.01 * total_formula_mass is never
\* in valid_rows; in removed_rows its reason is "Sum(Product) > Total Mass"
\* unless Sum (Active weight) > 100.01 too; a formula with Sum (Product mass)
\* <= 1.01 * total_formula_mass never has that reason.
C17_UpperMassCheck ==
    /\ \A row \in RowSet(valid_rows) :
          ~MassOver(row) /\ row[ColReason] # "Sum(Product) > Total Mass"
    /\ \A row \in RowSet(removed_rows) :
          /\ (MassOver(row) /\ ~ActiveOver(row)) => row[ColReason] = "Sum(Product) > Total Mass"
          /\ ~MassOver(row) => row[ColReason] # "Sum(Product) > Total Mass"

C17_Witness ==
    /\ pc = "done"
    /\ \E j \in 1..Len(df_removed.rows) :
          df_removed.rows[j][ColReason] = "Sum(Product) > Total Mass"
    /\ \E row \in RowSet(removed_rows) : MassOver(row) /\ ~ActiveOver(row)

\* C18: a formula is in removed_rows with reason "Sum(Active) > 100%" if and
\* only if its Sum (Active weight) > 100.01, whatever the mass-closure check
\* decided; every row of valid_rows has Sum (Active weight) <= 100.01.
C18_ActiveLimit ==
    /\ \A row \in RowSet(valid_rows) :
          ~ActiveOver(row) /\ row[ColReason] # "Sum(Active) > 100%"
    /\ \A row \in RowSet(removed_rows) :
          row[ColReason] = "Sum(Active) > 100%" <=> ActiveOver(row)

C18_Witness ==
    /\ pc = "done"
    /\ \E row \in RowSet(removed_rows) :
          ActiveOver(row) /\ row[ColReason] = "Sum(Active) > 100%"
    /\ \E row \in RowSet(valid_rows) : RGt(row[ColSumActiveWt], Zero)

SolventMassNegative(row) ==
    RLt(row[Col(solvent_component_name, " (Product mass) [g]")], Zero)

\* C20 as claimed: in v73.5, with a solvent, a formula whose solvent mass is
\* negative and whose Sum (Product mass) < 0.99 * total_formula_mass is in
\* removed_rows with reason "Negative Solvent Required", unless the
\* active-limit check relabels it; in v69.6 no formula has that reason.
C20_NegativeSolventAsClaimed ==
    /\ (variant = "B" /\ Truthy(solvent_component_name)) =>
          /\ \A row \in RowSet(valid_rows) : ~(SolventMassNegative(row) /\ MassUnder(row))
          /\ \A row \in RowSet(removed_rows) :
                (SolventMassNegative(row) /\ MassUnder(row) /\ ~ActiveOver(row)) =>
                    row[ColReason] = "Negative Solvent Required"
    /\ variant = "A" =>
          \A row \in RowSet(valid_rows) \cup RowSet(removed_rows) :
              row[ColReason] # "Negative Solvent Required"

\* C20 amended: such a formula is in removed_rows, with reason "Sum(Product) >
\* Total Mass" when its Sum (Product mass) > 1.01 * total_formula_mass (the
\* test made first) and "Negative Solvent Required" otherwise, unless the
\* active-limit check relabels it; in v69.6 no formula has that reason.
C20_NegativeSolvent ==
    /\ (variant = "B" /\ Truthy(solvent_component_name)) =>
          /\ \A row \in RowSet(valid_rows) : ~(SolventMassNegative(row) /\ MassUnder(row))
          /\ \A row \in RowSet(removed_rows) :
                (SolventMassNegative(row) /\ MassUnder(row) /\ ~ActiveOver(row)) =>
                    row[ColReason] = IF MassOver(row) THEN "Sum(Product) > Total Mass"
                                     ELSE "Negative Solvent Required"
    /\ variant = "A" =>
          \A row \in RowSet(valid_rows) \cup RowSet(removed_rows) :
              row[ColReason] # "Negative Solvent Required"

C20_Witness ==
    /\ pc = "done"
    /\ variant = "B"
    /\ Truthy(solvent_component_name)
    /\ \E row \in RowSet(removed_rows) :
          SolventMassNegative(row) /\ MassUnder(row) /\ ~ActiveOver(row)

(***************************************************************************)
(* The active masses of the two variants                                   *)
(***************************************************************************)
PurityOf(i) == Rat(component_data[i].product_active_wt_perc, 100)

MaxActiveOf(i) == Rat(component_data[i].maximum_active_wt_perc, 100)

\* the rows of the formulas processed so far, kept or removed
AllRows == RowSet(valid_rows) \union RowSet(removed_rows)

\* the step is an iteration of the lattice loop that makes a row
Iteration == pc = "loop" /\ pc' = "loop" /\ Len(lattice') = Len(lattice) + 1

\* the row the iteration adds, to valid_rows or to removed_rows
AddedRow ==
    IF Len(valid_rows') > Len(valid_rows) THEN valid_rows'[Len(valid_rows')]
    ELSE removed_rows'[Len(removed_rows')]

\* the composition the iteration processes
AddedZ == lattice'[Len(lattice')].z

\* the ingredients other than the solvent
NonSolvents == {i \in 1..Len(component_data) : component_data[i].name # solvent_component_name}

SolventIndex == CHOOSE i \in 1..Len(component_data) : component_data[i].name = solvent_component_name

\* productMass_i * (1 - purity_i)
ImpurityOf(row, i) == RMul(ProductMass(row, i), RSub(RInt(1), PurityOf(i)))

\* productMass_i * purity_i
IntrinsicOf(row, i) == RMul(ProductMass(row, i), PurityOf(i))

\* the sum of the impurity masses of the ingredients in S
ImpuritySum(row, S) ==
    RSum([i \in 1..Len(component_data) |-> IF i \in S THEN ImpurityOf(row, i) ELSE Zero])

\* a mass as a percentage of the total mass, as the rows show it
PercentOf(x) ==
    IF total_formula_mass > 0 THEN RDiv(RMul(RInt(100), x), RInt(total_formula_mass)) ELSE Zero

ActiveWtA(row, i) == row[Col(component_data[i].name, " (Active wt) [%]")]

\* the figures of a v69.6 row, with a solvent and without
SolventFiguresA(row) ==
    IF Truthy(solvent_component_name)
    THEN LET extra == ImpuritySum(row, NonSolvents)
             total == RAdd(IntrinsicOf(row, SolventIndex), extra)
         IN  /\ row[ColExtraSolvent] = extra
             /\ row[ColTotalSolvent] = total
             /\ ActiveWtA(row, SolventIndex) = PercentOf(total)
             /\ \A i \in NonSolvents : ActiveWtA(row, i) = PercentOf(IntrinsicOf(row, i))
    ELSE /\ ColExtraSolvent \notin DOMAIN row
         /\ ColTotalSolvent \notin DOMAIN row
         /\ \A i \in 1..Len(component_data) :
               ActiveWtA(row, i) = PercentOf(IntrinsicOf(row, i))

\* without a solvent the two solvent columns are in no table of v69.6
NoSolventColumns ==
    (variant = "A" /\ pc = "done" /\ ~Truthy(solvent_component_name)) =>
        \A cols \in {final_cols, df_valid.columns, df_removed.columns} :
            \A j \in 1..Len(cols) : cols[j] \notin {ColExtraSolvent, ColTotalSolvent}

\* C21: in v69.6 with a solvent, every row the loop makes has as "Extra
\* Solvent from Ingredients [g]" the sum over the non-solvent ingredients only
\* of productMass_i * (1 - purity_i) and as "Total Solvent [g]" solventMass *
\* solventPurity plus that sum, which is the active mass behind the solvent's
\* active weight, and every non-solvent active weight is that of productMass_i
\* * purity_i; without a solvent every active weight is that of productMass_i
\* * purity_i and the two solvent columns are in no row and in no table.
C21_SolventActiveA ==
    /\ []NoSolventColumns
    /\ [][(variant = "A" /\ Iteration) => SolventFiguresA(AddedRow)]_vars

\* a finished v69.6 call with an impure solvent and an impure non-solvent
\* ingredient, both with a positive mass in some row
C21_Witness ==
    /\ variant = "A"
    /\ pc = "done"
    /\ total_formula_mass = 100
    /\ Truthy(solvent_component_name)
    /\ RLt(PurityOf(SolventIndex), RInt(1))
    /\ \E row \in RowSet(valid_rows) :
          /\ RGt(row[ColExtraSolvent], Zero)
          /\ RGt(ProductMass(row, SolventIndex), Zero)
          /\ RGt(row[ColTotalSolvent], row[ColExtraSolvent])

ImpurityMassB(row, i) == row[Col(component_data[i].name, " (Impurity Mass) [g]")]

ActiveMassColB(row, i) ==
    row[Col(component_data[i].name,
            IF component_data[i].name = solvent_component_name
            THEN " (Active Mass + Solvent as active) [g]" ELSE " (Active Mass) [g]")]

\* the product masses of a row, by ingredient name
RowMasses(row) ==
    [name \in {component_data[i].name : i \in 1..Len(component_data)} |->
        row[Col(name, " (Product mass) [g]")]]

\* the impurity and active masses of a v73.5 row
SolventFiguresB(row) ==
    /\ \A i \in 1..Len(component_data) : ImpurityMassB(row, i) = ImpurityOf(row, i)
    /\ \A i \in NonSolvents : ActiveMassColB(row, i) = IntrinsicOf(row, i)
    /\ Truthy(solvent_component_name) =>
          /\ ActiveMassColB(row, SolventIndex)
                = RAdd(IntrinsicOf(row, SolventIndex),
                       ImpuritySum(row, 1..Len(component_data)))
          /\ RSub(ActiveMassColB(row, SolventIndex),
                  total_solvent_active(component_data, solvent_component_name,
                                       RowMasses(row)))
                = ImpurityOf(row, SolventIndex)

\* C22: in v73.5 every row the loop makes has as impurity mass of every
\* ingredient, the solvent included, productMass_i * (1 - purity_i), as active
\* mass of a non-solvent ingredient productMass_i * purity_i, and as active
\* mass of the solvent solventMass * solventPurity plus the impurity masses of
\* all ingredients, its own included: the solvent active mass v69.6 computes
\* from the same product masses, plus the solvent's own impurity mass.
C22_SolventActiveB == [][(variant = "B" /\ Iteration) => SolventFiguresB(AddedRow)]_vars

\* a finished v73.5 call with a row where the solvent and a non-solvent
\* ingredient both carry a positive impurity mass
C22_Witness ==
    /\ variant = "B"
    /\ pc = "done"
    /\ total_formula_mass = 100
    /\ Truthy(solvent_component_name)
    /\ \E row \in RowSet(valid_rows) :
          /\ RGt(ImpurityMassB(row, SolventIndex), Zero)
          /\ \E i \in NonSolvents : RGt(ImpurityMassB(row, i), Zero)

(***************************************************************************)
(* Product mass, volume and weight percent                                 *)
(***************************************************************************)
ProductVolume(row, i) == row[Col(component_data[i].name, " (Product volume) [mL]")]

DensityOf(i) == RInt(component_data[i].density)

\* z_i * maxActive_i * T
TargetActive(z, i) == RMul(RMul(z[i], MaxActiveOf(i)), RInt(total_formula_mass))

\* the figures of a row that do not depend on z: volume = mass / density for
\* every ingredient, and solvent mass = T - sum of the non-solvent masses
VolumeAndSolvent(row) ==
    /\ \A i \in 1..Len(component_data) :
          ProductVolume(row, i) = RDiv(ProductMass(row, i), DensityOf(i))
    /\ Truthy(solvent_component_name) =>
          ProductMass(row, SolventIndex)
            = RSub(RInt(total_formula_mass),
                   RSum([i \in 1..Len(component_data) |->
                           IF i \in NonSolvents THEN ProductMass(row, i) ELSE Zero]))

\* the row shows the composition z (v69.6 rows carry it in their Base columns)
BaseIs(row, z) ==
    variant = "A" =>
        \A i \in 1..Len(component_data) : row[Col(component_data[i].name, " (Base)")] = z[i]

\* the row's figures for the composition z, as the claim states them
FiguresAsClaimed(row, z) ==
    /\ BaseIs(row, z)
    /\ VolumeAndSolvent(row)
    /\ \A i \in NonSolvents :
          ProductMass(row, i)
            = IF PurityOf(i) = Zero THEN Zero ELSE RDiv(TargetActive(z, i), PurityOf(i))
    /\ \A i \in 1..Len(component_data) :
          RMul(ProductWt(row, i), RInt(total_formula_mass))
            = RMul(RInt(100), ProductMass(row, i))

\* the row's figures for the composition z, with the guards of the code
Figures(row, z) ==
    /\ BaseIs(row, z)
    /\ VolumeAndSolvent(row)
    /\ \A i \in NonSolvents :
          ProductMass(row, i)
            = IF RGt(PurityOf(i), Zero) THEN RDiv(TargetActive(z, i), PurityOf(i)) ELSE Zero
    /\ \A i \in 1..Len(component_data) :
          ProductWt(row, i)
            = IF total_formula_mass > 0
              THEN RDiv(RMul(RInt(100), ProductMass(row, i)), RInt(total_formula_mass))
              ELSE Zero

\* C23 as claimed: in both variants the row the loop makes of a composition z
\* has non-solvent productMass_i = z_i * maxActive_i * T / purity_i (0 when
\* purity_i = 0), volume = mass / density, productWt% = 100 * mass / T, and
\* solvent mass = T - sum of the non-solvent masses whatever the solvent's
\* own z.
C23_ProductFiguresAsClaimed == [][Iteration => FiguresAsClaimed(AddedRow, AddedZ)]_vars

\* C23: in both variants the row the loop makes of a composition z has
\* non-solvent productMass_i = z_i * maxActive_i * T / purity_i when purity_i >
\* 0 and 0 otherwise, volume = mass / density, productWt% = 100 * mass / T
\* when T > 0 and 0 otherwise, and solvent mass = T - sum of the non-solvent
\* masses whatever the solvent's own z.
C23_ProductFigures == [][Iteration => Figures(AddedRow, AddedZ)]_vars

\* a finished call with a solvent where an ingredient of density 2 and purity
\* below 100 has a positive mass in a row that has solvent too
C23_Witness ==
    /\ pc = "done"
    /\ total_formula_mass = 100
    /\ Truthy(solvent_component_name)
    /\ \E row \in RowSet(valid_rows) : \E i \in NonSolvents :
          /\ DensityOf(i) = RInt(2)
          /\ RLt(PurityOf(i), RInt(1))
          /\ RGt(ProductMass(row, i), Zero)
          /\ RGt(ProductMass(row, SolventIndex), Zero)

(***************************************************************************)
(* The order of the formulas                                               *)
(***************************************************************************)
\* s comes before t in lexicographic order, the first component most significant
LexLess(s, t) ==
    \E k \in 1..Len(s) : s[k] < t[k] /\ \A j \in 1..(k - 1) : s[j] = t[j]

\* the table has the rows `rows`, in their order, in the columns it shares with them
SameOrder(df, rows) ==
    /\ Len(df.rows) = Len(rows)
    /\ \A j \in 1..Len(rows) :
          \A c \in DOMAIN df.rows[j] \intersect DOMAIN rows[j] : df.rows[j][c] = rows[j][c]

\* new is old with one row, the row of the composition z, added at its end
AppendedRowOf(old, new, z) ==
    /\ Len(new) = Len(old) + 1
    /\ SubSeq(new, 1, Len(old)) = old
    /\ Figures(new[Len(new)], z)

\* the tuples processed so far are in ascending lexicographic order
LatticeAscending ==
    \A a, b \in 1..Len(lattice) : a < b => LexLess(lattice[a].p_tuple, lattice[b].p_tuple)

\* with randomize false and replicate 1 the tables keep the order of the rows
TablesInOrder ==
    (pc = "done" /\ randomize = FALSE /\ replicate = 1) =>
        /\ SameOrder(df_valid, valid_rows)
        /\ SameOrder(df_removed, removed_rows)
        /\ \A j \in 1..Len(df_valid.rows) : df_valid.rows[j][ColFormulaNumber] = j

\* an iteration of the loop adds the row of its tuple at the end of valid_rows
\* or at the end of removed_rows and leaves the other rows as they are
RowsInOrder ==
    (pc = "loop" /\ pc' = "loop" /\ Len(lattice') = Len(lattice) + 1) =>
        LET z == lattice'[Len(lattice')].z
        IN  \/ AppendedRowOf(valid_rows, valid_rows', z) /\ removed_rows' = removed_rows
            \/ AppendedRowOf(removed_rows, removed_rows', z) /\ valid_rows' = valid_rows

\* C24: the loop processes the integer tuples in ascending lexicographic
\* order, the first ingredient most significant; every iteration adds the row
\* of its tuple at the end of valid_rows or of removed_rows, so both hold
\* their rows in that order; and with randomize false and replicate 1 the
\* returned tables keep that order, the valid one numbered 1, 2, ... along it.
C24_LexicographicOrder ==
    /\ [](InLoop => (LatticeAscending /\ TablesInOrder))
    /\ [][RowsInOrder]_vars

\* a finished call of three ingredients, degree 2, randomize false and
\* replicate 1, that kept some rows and removed others
C24_Witness ==
    /\ pc = "done"
    /\ randomize = FALSE
    /\ replicate = 1
    /\ Len(component_data) = 3
    /\ Len(lattice) = 6
    /\ lattice[1].p_tuple = <<0, 0, 2>>
    /\ lattice[6].p_tuple = <<2, 0, 0>>
    /\ Len(df_valid.rows) >= 2
    /\ Len(df_removed.rows) >= 2

(***************************************************************************)
(* The two variants on the same inputs                                     *)
(***************************************************************************)
\* the figures the claim names agree between a v69.6 formula fa and a v73.5
\* formula fb of the same inputs, whose product masses are tpm
SameFigures(fa, fb, tpm) ==
    LET cd == component_data
        solv == solvent_component_name
        ra == fa.row_data
        rb == fb.row_data
    IN  /\ \A i \in 1..Len(cd) :
              \A suffix \in {" (Product mass) [g]", " (Product volume) [mL]",
                              " (Product wt) [%]"} :
                  ra[Col(cd[i].name, suffix)] = rb[Col(cd[i].name, suffix)]
        /\ ra[ColSumMass] = rb[ColSumMass]
        /\ \A i \in NonSolvents :
              /\ ActiveMassA(cd, solv, tpm, cd[i].name) = rb[Col(cd[i].name, " (Active Mass) [g]")]
              /\ ra[Col(cd[i].name, " (Active wt) [%]")] = rb[Col(cd[i].name, " (Active wt) [%]")]
        /\ ~Truthy(solv) =>
              /\ ra[ColSumActiveWt] = rb[ColSumActiveWt]
              /\ fa.is_valid = fb.is_valid

\* the formula the iteration has made, with its class
AddedFormula == [row_data |-> AddedRow, is_valid |-> Len(valid_rows') > Len(valid_rows)]

\* the formula the loop body of variant v makes of the same inputs
FormulaOf(v, tpm) ==
    Formula(v, component_data, total_formula_mass, AddedZ, solvent_component_name, tpm)

\* the formula the iteration has made agrees with the one the other variant
\* makes of the same inputs
VariantsAgree(tpm) ==
    IF variant = "A" THEN SameFigures(AddedFormula, FormulaOf("B", tpm), tpm)
    ELSE SameFigures(FormulaOf("A", tpm), AddedFormula, tpm)

\* C26: for every composition vector the loop processes, the loop body of
\* v69.6 and the loop body of v73.5 give, for the same configuration, degree
\* and total mass, the same product mass, volume and product weight percent
\* of every ingredient, the same Sum (Product mass) and the same active mass
\* of every non-solvent ingredient; without a solvent they also give the same
\* Sum (Active weight) and put the formula in the same class.
C26_VariantsAgree ==
    [][Iteration =>
          VariantsAgree(temp_product_masses(component_data, total_formula_mass, AddedZ,
                                            solvent_component_name))]_vars

\* the loop has just added the row of a formula without a solvent whose
\* product masses fall below 0.99 of the total mass and whose actives are
\* positive
C26_Witness ==
    /\ pc = "loop"
    /\ degree_m = 2
    /\ total_formula_mass = 100
    /\ ~Truthy(solvent_component_name)
    /\ valid_rows # <<>>
    /\ MassUnder(valid_rows[Len(valid_rows)])
    /\ RGt(valid_rows[Len(valid_rows)][ColSumActiveWt], Zero)
    /\ Len(lattice) >= 2

(***************************************************************************)
(* Validated configurations with a positive total mass                     *)
(***************************************************************************)
\* at most one solvent, 0 <= maxActive <= purity <= 100 and density > 0
ValidatedConfig ==
    /\ solvent_count(component_data) <= 1
    /\ \A i \in 1..Len(component_data) :
          /\ 0 <= component_data[i].maximum_active_wt_perc
          /\ component_data[i].maximum_active_wt_perc <= component_data[i].product_active_wt_perc
          /\ component_data[i].product_active_wt_perc <= 100
          /\ component_data[i].density > 0

\* the loop runs, or has run, on a validated configuration with T > 0
ValidatedRun == InLoop /\ ValidatedConfig /\ total_formula_mass > 0

NegativeSolventRequired == "Negative Solvent Required"

\* the solvent's figures in a row
SolventNonNegative(row) ==
    /\ RLe(Zero, ProductMass(row, SolventIndex))
    /\ ~(MassUnder(row) /\ SolventMassNegative(row))
    /\ row[ColReason] # NegativeSolventRequired
    /\ row[ColSumMass] = RInt(total_formula_mass)

\* C28: for a validated configuration with a solvent and total mass > 0, in
\* every row the solvent mass is >= 0, the test of v73.5 for "Negative
\* Solvent Required" is not met, the row does not have that reason and its
\* Sum (Product mass) is exactly T, so never below 0.99 * T; and the row the
\* loop makes of a composition z has a solvent mass >= z_solvent * T.
C28_SolventNonNegative ==
    /\ []((ValidatedRun /\ Truthy(solvent_component_name)) =>
             \A row \in AllRows : SolventNonNegative(row))
    /\ [][(ValidatedRun /\ Truthy(solvent_component_name) /\ Iteration) =>
             RLe(RMul(AddedZ[SolventIndex], RInt(total_formula_mass)),
                 ProductMass(AddedRow, SolventIndex))]_vars

\* the loop has just added a row where the solvent has no share of its own
\* and still a positive mass, the impure ingredient's maximum being below
\* its purity
C28_Witness ==
    /\ pc = "loop"
    /\ ValidatedRun
    /\ Truthy(solvent_component_name)
    /\ degree_m = 2
    /\ lattice # <<>>
    /\ lattice[Len(lattice)].z[SolventIndex] = Zero
    /\ valid_rows # <<>>
    /\ RGt(ProductMass(valid_rows[Len(valid_rows)], SolventIndex), Zero)

\* C29: in v73.5 with a solvent and total mass > 0 every row has Sum (Active
\* weight) exactly 100, so the active-limit check rejects no formula: no row
\* has the reason "Sum(Active) > 100%".
C29_ActiveSumIs100 ==
    (variant = "B" /\ InLoop /\ Truthy(solvent_component_name) /\ total_formula_mass > 0) =>
        \A row \in AllRows :
            /\ row[ColSumActiveWt] = RInt(100)
            /\ ~ActiveOver(row)
            /\ row[ColReason] # "Sum(Active) > 100%"

\* a finished v73.5 call with a solvent and a row where impurities are
\* credited to it
C29_Witness ==
    /\ variant = "B"
    /\ pc = "done"
    /\ total_formula_mass > 0
    /\ Truthy(solvent_component_name)
    /\ Len(valid_rows) >= 3
    /\ \E row \in RowSet(valid_rows) :
          /\ RGt(ImpuritySum(row, NonSolvents), Zero)
          /\ RLt(RAdd(IntrinsicOf(row, SolventIndex), ImpuritySum(row, NonSolvents)),
                 ActiveMassColB(row, SolventIndex))

(***************************************************************************)
(* Properties of the widget interface                                      *)
(***************************************************************************)
\* the rows whose 'Is Solvent' checkbox is set
Checked(rows) == {i \in 1..Len(rows) : rows[i].w_solvent}

\* C25: whatever rows are added or deleted and whatever 'Is Solvent'
\* checkboxes are clicked, at most one row has 'Is Solvent' set; a click that
\* sets one leaves it the only one set; the callbacks a click sets off end,
\* after at most one callback per row; and a run started by GENERATE never
\* ends in the multiple-solvent error.
C25_SingleSolvent ==
    /\ Cardinality(Checked(component_rows)) <= 1
    /\ \A i \in 1..Len(component_rows) :
          LET after == Click(component_rows, i)
          IN  /\ after.calls <= Len(component_rows)
              /\ Checked(after.rows) = IF component_rows[i].w_solvent THEN {} ELSE {i}
    /\ pc # "idle" => solvent_count(component_data) <= 1
    /\ error # "Multiple ingredients marked as 'Is Solvent'"

\* a row is the solvent and a click on another row's checkbox would run two
\* callbacks: its own and the one of the checkbox it clears
C25_Witness ==
    /\ pc = "idle"
    /\ Len(component_rows) = 3
    /\ component_rows[3].w_solvent
    /\ Click(component_rows, 1).calls = 2
    /\ Checked(Click(component_rows, 1).rows) = {1}

\* the names add_ingredient_row gives; a name field the user has typed into
\* holds none of them
DefaultNames == {DefaultName(variant, idx) : idx \in 1..MaxRows}

\* no row shows an edited name (what add and delete do does not depend on the
\* names, so these rows are also those of a history without any edit)
NamesAsGiven == \A i \in 1..Len(component_rows) : component_rows[i].w_name \in DefaultNames

\* C30: after any sequence of add and delete events, the rows' names never
\* edited, the names of the rows are pairwise distinct, and the configuration
\* on_run builds has one entry per row.
C30_DistinctNames ==
    NamesAsGiven =>
        /\ \A i, j \in 1..Len(component_rows) :
              i # j => component_rows[i].w_name # component_rows[j].w_name
        /\ pc # "idle" => Len(component_data) = Len(component_rows)
====
